---- MODULE Spec2Model ----
(***************************************************************************)
(* Model of the Obsidian-to-Quarto exporter (src/main.ts).                 *)
(*                                                                         *)
(* Texts are TLA+ strings; positions are 1-based (JS index + 1).  The      *)
(* regular expressions of the source are written out as matchers that      *)
(* follow the backtracking order of the JS engine (greedy: longest first,  *)
(* lazy: shortest first, leftmost start wins).                             *)
(***************************************************************************)
EXTENDS Naturals, Integers, Sequences, FiniteSets, TLC

VARIABLES
    \* ---- convertEmbeddedNotes (one call) ----
    ePc,            \* "idle" | "awaiting" | "done" | "failed"
    eContent,       \* the `content` argument
    vault,          \* note name -> content, or NoFile (metadataCache + vault.read)
    embedPromises,  \* the promises pushed by the first replace pass
    settled,        \* indices of embedPromises in the order they were fulfilled
    eResult,        \* the returned string
    \* ---- convertToQuarto (one call) ----
    cPc,            \* the pass the call is about to run, "done", "failed" or "off"
    cContent,       \* the `content` argument
    cSettings,      \* [dateOption, dateFormat, importTags]
    cCacheTags,     \* [isNull, tags]: getAllTags(fileCache) of the file
    frontmatter,
    mainContent,
    newFrontmatter,
    fileTags,
    preHeaderContent,
    convertedContent,
    resolverCalls,  \* the (noteName, reference) pairs handed to getEmbeddedNoteContent
    cOutput,        \* the returned string
    \* ---- exportToQuarto (the command) ----
    xPc,            \* "idle", the await the invocation is at, or "finished"
    settings,       \* [overwriteExisting, outputFolder]
    activeFile,     \* [kind, content] of workspace.getActiveFile()
    files,          \* path -> content, NoFile when the path does not exist
    folders,        \* the directories that exist
    xContent,       \* `content`
    xConverted,     \* `convertedContent`
    newFileName,
    newPath,
    counter,
    calls,          \* the collaborator calls of this invocation: [op, path, threw]
    notices,        \* the Notices shown by this invocation
    filesAtStart,   \* `files` when this invocation began
    exportsDone     \* invocations begun so far

embedVars == <<ePc, eContent, vault, embedPromises, settled, eResult>>
convVars == <<cPc, cContent, cSettings, cCacheTags, frontmatter, mainContent,
              newFrontmatter, fileTags, preHeaderContent, convertedContent,
              resolverCalls, cOutput>>
exportVars == <<xPc, settings, activeFile, files, folders, xContent, xConverted,
                newFileName, newPath, counter, calls, notices, filesAtStart, exportsDone>>
vars == <<embedVars, convVars, exportVars>>

(***************************************************************************)
(* String helpers (JS String methods).                                     *)
(***************************************************************************)
NL == "\n"
NoFile == "<<no-file>>"

\* characters a..b of s, clamped to the string as String.prototype.slice clamps
Sub(s, a, b) ==
    LET lo == IF a < 1 THEN 1 ELSE a
        hi == IF b > Len(s) THEN Len(s) ELSE b
    IN  IF lo > hi THEN "" ELSE SubSeq(s, lo, hi)
At(s, i) == IF i >= 1 /\ i <= Len(s) THEN SubSeq(s, i, i) ELSE ""
From(s, i) == Sub(s, i, Len(s))
IsAt(s, i, lit) ==
    i >= 1 /\ i + Len(lit) - 1 <= Len(s) /\ Sub(s, i, i + Len(lit) - 1) = lit
StartsWith(s, lit) == IsAt(s, 1, lit)

IsWs(c) == c \in {" ", NL, "\t"}
IsHash(c) == c = "#"

LowerLetters == "abcdefghijklmnopqrstuvwxyz"
UpperLetters == "ABCDEFGHIJKLMNOPQRSTUVWXYZ"
Digits == "0123456789"
CharsOf(s) == {SubSeq(s, k, k) : k \in 1..Len(s)}
\* [a-zA-Z0-9-]
IdChars == CharsOf(LowerLetters) \cup CharsOf(UpperLetters) \cup CharsOf(Digits) \cup {"-"}
\* \w
WordChars == CharsOf(LowerLetters) \cup CharsOf(UpperLetters) \cup CharsOf(Digits) \cup {"_"}
IsIdChar(c) == c \in IdChars
IsWordChar(c) == c \in WordChars

\* String.prototype.toLowerCase / the i flag, one character
Lower(c) ==
    IF c \in CharsOf(UpperLetters)
    THEN LET k == CHOOSE k \in 1..Len(UpperLetters) : SubSeq(UpperLetters, k, k) = c
         IN  SubSeq(LowerLetters, k, k)
    ELSE c

RECURSIVE LowerStr(_)
LowerStr(s) == IF s = "" THEN "" ELSE Lower(At(s, 1)) \o LowerStr(From(s, 2))

IsAtCI(s, i, lit) ==
    /\ i >= 1
    /\ i + Len(lit) - 1 <= Len(s)
    /\ LowerStr(Sub(s, i, i + Len(lit) - 1)) = LowerStr(lit)

NotNL(c) == c # NL
NotRBracket(c) == c # "]"
NotRBrace(c) == c # "}"

\* length of the longest run of characters satisfying P that starts at p
InClass(c, cls) ==
    CASE cls = "ws" -> IsWs(c)
      [] cls = "hash" -> IsHash(c)
      [] cls = "notnl" -> NotNL(c)
      [] cls = "word" -> IsWordChar(c)
      [] cls = "notrb" -> NotRBracket(c)
      [] cls = "notrbrace" -> NotRBrace(c)
      [] cls = "id" -> IsIdChar(c)
      [] OTHER -> FALSE

\* every character of s[a..b] is in the class
AllIn(s, a, b, cls) == \A k \in a..b : InClass(At(s, k), cls)

RECURSIVE Run(_, _, _)
Run(s, p, cls) == IF p <= Len(s) /\ InClass(At(s, p), cls) THEN 1 + Run(s, p + 1, cls) ELSE 0

Min(S) == CHOOSE x \in S : \A y \in S : x <= y
Max(S) == CHOOSE x \in S : \A y \in S : x >= y

\* String.prototype.trim
TrimStart(s) ==
    LET ks == {k \in 1..Len(s) : ~IsWs(At(s, k))}
    IN  IF ks = {} THEN "" ELSE From(s, Min(ks))
TrimEnd(s) ==
    LET ks == {k \in 1..Len(s) : ~IsWs(At(s, k))}
    IN  IF ks = {} THEN "" ELSE Sub(s, 1, Max(ks))
Trim(s) == TrimEnd(TrimStart(s))

\* String.prototype.indexOf(lit, from): 1-based position, 0 when absent
IndexOf(s, lit, from) ==
    LET ks == {k \in from..Len(s) : IsAt(s, k, lit) /\ k + Len(lit) - 1 <= Len(s)}
    IN  IF ks = {} THEN 0 ELSE Min(ks)

LineStart(s, p) == p = 1 \/ At(s, p - 1) = NL
\* `$` under the m flag: end of input or just before a line break
LineEnd(s, p) == p = Len(s) + 1 \/ At(s, p) = NL

RECURSIVE Join(_, _)
Join(lines, sep) ==
    IF Len(lines) = 0 THEN ""
    ELSE IF Len(lines) = 1 THEN lines[1]
    ELSE lines[1] \o sep \o Join(Tail(lines), sep)

RECURSIVE Split(_)
\* String.prototype.split('\n')
Split(s) ==
    LET k == IndexOf(s, NL, 1)
    IN  IF k = 0 THEN <<s>> ELSE <<Sub(s, 1, k - 1)>> \o Split(From(s, k + 1))

(***************************************************************************)
(* getEmbeddedNoteContent                                                  *)
(***************************************************************************)
\* /^(#+)\s*<headerName>\s*$/im tried at position p: the set of
\* <<hashes, ws, trailing, end>> that match there.
HeaderCandidates(s, p, headerName) ==
    UNION {UNION {{<<k, w, t>> : t \in {t \in 0..Run(s, p + k + w + Len(headerName), "ws") :
                                          LineEnd(s, p + k + w + Len(headerName) + t)}}
                  : w \in {w \in 0..Run(s, p + k, "ws") : IsAtCI(s, p + k + w, headerName)}}
           : k \in 1..Run(s, p, "hash")}

\* the candidate the backtracking engine finds first: greedy, left to right
HeaderPick(C) ==
    CHOOSE c \in C : \A d \in C :
        \/ c[1] > d[1]
        \/ c[1] = d[1] /\ c[2] > d[2]
        \/ c[1] = d[1] /\ c[2] = d[2] /\ c[3] >= d[3]

\* content.match(headerRegex): [found, index, level, length of match[0]]
HeaderMatch(s, headerName) ==
    LET ps == {p \in 1..Len(s) :
                 LineStart(s, p) /\ IsHash(At(s, p)) /\ HeaderCandidates(s, p, headerName) # {}}
    IN  IF ps = {} THEN [found |-> FALSE, index |-> 0, level |-> 0, len |-> 0]
        ELSE LET p == Min(ps)
                 c == HeaderPick(HeaderCandidates(s, p, headerName))
             IN  [found |-> TRUE, index |-> p, level |-> c[1],
                  len |-> c[1] + c[2] + Len(headerName) + c[3]]

\* remainingContent.match(/^#{1,level}\s/im): 1-based index, 0 when absent
NextHeaderMatch(s, level) ==
    LET ps == {p \in 1..Len(s) :
                 /\ LineStart(s, p)
                 /\ \E k \in 1..level : AllIn(s, p, p + k - 1, "hash") /\ IsWs(At(s, p + k))}
    IN  IF ps = {} THEN 0 ELSE Min(ps)

\* the part of blockRegex between [^\n]+ and \^id:  \s*(?:{{[^}]*}})?\s*
BlockMid(s, a, e) ==
    \/ AllIn(s, a, e - 1, "ws")
    \/ \E b1 \in a..(e - 1), b2 \in a..(e - 1) :
          /\ b1 + 3 <= b2
          /\ AllIn(s, a, b1 - 1, "ws")
          /\ IsAt(s, b1, "{{")
          /\ AllIn(s, b1 + 2, b2 - 2, "notrbrace")
          /\ IsAt(s, b2 - 1, "}}")
          /\ AllIn(s, b2 + 1, e - 1, "ws")

\* \s*$ under the m flag, from position p
WsToLineEnd(s, p) ==
    \E t \in 0..(Len(s) + 1 - p) : AllIn(s, p, p + t - 1, "ws") /\ LineEnd(s, p + t)

\* group 2 of blockRegex,  [^\n]+\s*(?:{{[^}]*}})?\s*\^<id>\s*$ , matched from L
BlockLineAt(s, L, blockId) ==
    \E e \in (L + 1)..Len(s) :
        /\ IsAt(s, e, "^" \o blockId)
        /\ WsToLineEnd(s, e + 1 + Len(blockId))
        /\ \E n \in 1..Run(s, L, "notnl") : L + n <= e /\ BlockMid(s, L + n, e)

\* content.match(blockRegex): blockMatch.index + blockMatch[1].length, 0 when no match
BlockMatch(s, blockId) ==
    LET ps == {L \in 1..Len(s) : LineStart(s, L) /\ BlockLineAt(s, L, blockId)}
    IN  IF ps = {} THEN 0 ELSE Min(ps)

\* content.replace(/\s*\^[a-zA-Z0-9-]+\s*$/, '')
StripBlockRef(s) ==
    LET ps == {p \in 1..Len(s) :
                 \E c \in p..Len(s), e \in p..Len(s) :
                    /\ c < e + 1
                    /\ AllIn(s, p, c - 1, "ws")
                    /\ At(s, c) = "^"
                    /\ c + 1 <= e
                    /\ AllIn(s, c + 1, e, "id")
                    /\ AllIn(s, e + 1, Len(s), "ws")}
    IN  IF ps = {} THEN s ELSE Sub(s, 1, Min(ps) - 1)

Wrap(content) == NL \o NL \o content \o NL \o NL
Warning(text) == Wrap("> [!warning] " \o text)

HeaderSection(content, headerName) ==
    LET m == HeaderMatch(content, headerName)
        remainingContent == From(content, m.index + m.len)
        nx == NextHeaderMatch(remainingContent, m.level)
        \* JS: nextHeaderMatch.index + headerMatch[0].length, else content.length
        nextHeaderIndex == IF nx # 0 THEN (nx - 1) + m.len ELSE Len(content)
    IN  Sub(content, m.index, m.index + nextHeaderIndex - 1)

BlockSection(content, blockId) ==
    LET blockIndex == BlockMatch(content, blockId)
        blockEndIndex == IndexOf(content, NL \o NL, blockIndex)
    IN  IF blockEndIndex # 0
        THEN Trim(Sub(content, blockIndex, blockEndIndex - 1))
        ELSE Trim(From(content, blockIndex))

\* reference = "" stands for `undefined`
getEmbeddedNoteContent(noteName, reference) ==
    IF noteName \in DOMAIN vault /\ vault[noteName] # NoFile
    THEN LET content == vault[noteName]
             scoped ==
                IF reference = "" THEN [ok |-> TRUE, text |-> content]
                ELSE IF StartsWith(reference, "#")
                THEN LET headerName == From(reference, 2)
                     IN  IF HeaderMatch(content, headerName).found
                         THEN [ok |-> TRUE, text |-> HeaderSection(content, headerName)]
                         ELSE [ok |-> FALSE, text |->
                                 Warning("Header not found: " \o headerName \o " in " \o noteName)]
                ELSE IF StartsWith(reference, "^")
                THEN LET blockId == From(reference, 2)
                     IN  IF BlockMatch(content, blockId) # 0
                         THEN [ok |-> TRUE, text |-> BlockSection(content, blockId)]
                         ELSE [ok |-> FALSE, text |->
                                 Warning("Block not found: " \o blockId \o " in " \o noteName)]
                ELSE [ok |-> TRUE, text |-> content]
         IN  IF scoped.ok THEN Wrap(Trim(StripBlockRef(scoped.text))) ELSE scoped.text
    ELSE Warning("Embedded note not found: " \o noteName \o reference)

(***************************************************************************)
(* convertEmbeddedNotes                                                    *)
(***************************************************************************)
NoMatch == [ok |-> FALSE, start |-> 0, end |-> 0, noteName |-> "", reference |-> ""]

\* the optional group ((?:#|\^).+?)? followed by \]\], tried at p:
\* lengths m of `.+?` for which the rest matches
RefLengths(s, p) ==
    IF At(s, p) \in {"#", "^"}
    THEN {m \in 1..Run(s, p + 1, "notnl") : IsAt(s, p + 1 + m, "]]")}
    ELSE {}

\* embeddedNoteRegex = /!\[\[([^\]]+?)((?:#|\^).+?)?\]\]/ tried at position i
EmbedMatchAt(s, i) ==
    IF ~IsAt(s, i, "![[") THEN NoMatch
    ELSE LET ns == {n \in 1..Run(s, i + 3, "notrb") :
                      RefLengths(s, i + 3 + n) # {} \/ IsAt(s, i + 3 + n, "]]")}
         IN  IF ns = {} THEN NoMatch
             ELSE LET n == Min(ns)
                      p == i + 3 + n
                      ms == RefLengths(s, p)
                  IN  IF ms # {}
                      THEN [ok |-> TRUE, start |-> i, end |-> p + Min(ms) + 3,
                            noteName |-> Sub(s, i + 3, p - 1),
                            reference |-> Sub(s, p, p + Min(ms))]
                      ELSE [ok |-> TRUE, start |-> i, end |-> p + 2,
                            noteName |-> Sub(s, i + 3, p - 1), reference |-> ""]

\* the matches of the global regex, left to right, from position i
RECURSIVE EmbedMatchesFrom(_, _)
EmbedMatchesFrom(s, i) ==
    IF i > Len(s) THEN <<>>
    ELSE LET m == EmbedMatchAt(s, i)
         IN  IF m.ok THEN <<m>> \o EmbedMatchesFrom(s, m.end)
             ELSE EmbedMatchesFrom(s, i + 1)

EmbedMatches(s) == EmbedMatchesFrom(s, 1)

\* variant: the values in the order the promises were fulfilled
PromiseAllByCompletion(promises, order) ==
    [i \in 1..Len(promises) |->
        IF i <= Len(order) THEN promises[order[i]].value ELSE promises[i].value]

\* await Promise.all(embedPromises): the values by index of the promise
PromiseAll(promises, order) == [i \in 1..Len(promises) |-> promises[i].value]

\* embeddedContents.shift() || '' for the k-th callback
Shifted(contents, k) == IF k <= Len(contents) THEN contents[k] ELSE ""

\* content.replace(embeddedNoteRegex, () => embeddedContents.shift() || '')
RECURSIVE ReplaceEmbeds(_, _, _, _, _)
ReplaceEmbeds(s, matches, k, from, contents) ==
    IF k > Len(matches) THEN From(s, from)
    ELSE Sub(s, from, matches[k].start - 1) \o Shifted(contents, k)
           \o ReplaceEmbeds(s, matches, k + 1, matches[k].end, contents)

\* first pass of convertEmbeddedNotes: one promise per match, in scan order
StartConvertEmbeddedNotes ==
    /\ ePc = "idle"
    /\ LET ms == EmbedMatches(eContent)
       IN  embedPromises' = [i \in 1..Len(ms) |->
                               [noteName |-> ms[i].noteName, reference |-> ms[i].reference,
                                state |-> "pending", value |-> ""]]
    /\ ePc' = "awaiting"
    /\ UNCHANGED <<eContent, vault, settled, eResult>>
    /\ UNCHANGED <<convVars, exportVars>>

\* one getEmbeddedNoteContent call returns
ResolveEmbed(i) ==
    /\ ePc = "awaiting"
    /\ embedPromises[i].state = "pending"
    /\ embedPromises' = [embedPromises EXCEPT
          ![i].state = "fulfilled",
          ![i].value = getEmbeddedNoteContent(embedPromises[i].noteName,
                                              embedPromises[i].reference)]
    /\ settled' = Append(settled, i)
    /\ UNCHANGED <<ePc, eContent, vault, eResult>>
    /\ UNCHANGED <<convVars, exportVars>>

\* vault.read of an embedded note throws: Promise.all rejects
RejectEmbed(i) ==
    /\ ePc = "awaiting"
    /\ embedPromises[i].state = "pending"
    /\ embedPromises[i].noteName \in DOMAIN vault
    /\ vault[embedPromises[i].noteName] # NoFile
    /\ embedPromises' = [embedPromises EXCEPT ![i].state = "rejected"]
    /\ ePc' = "failed"
    /\ UNCHANGED <<eContent, vault, settled, eResult>>
    /\ UNCHANGED <<convVars, exportVars>>

\* Promise.all fulfilled: second replace pass
FinishConvertEmbeddedNotes ==
    /\ ePc = "awaiting"
    /\ \A i \in 1..Len(embedPromises) : embedPromises[i].state = "fulfilled"
    /\ eResult' = ReplaceEmbeds(eContent, EmbedMatches(eContent), 1, 1,
                                PromiseAll(embedPromises, settled))
    /\ ePc' = "done"
    /\ UNCHANGED <<eContent, vault, embedPromises, settled>>
    /\ UNCHANGED <<convVars, exportVars>>

(***************************************************************************)
(* Inputs of the embed resolver                                            *)
(***************************************************************************)
MaxPieces == 3
MaxLines == 3

RECURSIVE SeqsUpTo(_, _)
SeqsUpTo(S, n) ==
    IF n = 0 THEN {<<>>}
    ELSE LET prev == SeqsUpTo(S, n - 1)
         IN  prev \cup {Append(q, x) : q \in {r \in prev : Len(r) = n - 1}, x \in S}

EmbedPieces == {"x", NL, "![[N]]", "![[N#a]]", "![[N^b]]", "![[M#a]]"}
EmbedTexts == {Join(q, "") : q \in SeqsUpTo(EmbedPieces, MaxPieces)}

NoteLines == {"", "t", "a", "# a", "## A", "# c", "### c", "#", "t ^b"}
NoteTexts == {Join(q, NL) : q \in SeqsUpTo(NoteLines, MaxLines) \ {<<>>}}

FixedNote == "# a\nt\n\nu\nv ^b\n\n# c\nw"
ScopedEmbeds == {"![[N]]", "![[N#a]]", "![[N^b]]"}

VaultOf(text) == [n \in {"N", "M"} |-> IF n = "N" THEN text ELSE NoFile]

ExportOff ==
    /\ xPc = "off"
    /\ settings = [overwriteExisting |-> FALSE, outputFolder |-> ""]
    /\ activeFile = [kind |-> "none", content |-> ""]
    /\ files = <<>>
    /\ folders = {}
    /\ xContent = ""
    /\ xConverted = ""
    /\ newFileName = ""
    /\ newPath = ""
    /\ counter = 0
    /\ calls = <<>>
    /\ notices = <<>>
    /\ filesAtStart = <<>>
    /\ exportsDone = 0

NullCache == [isNull |-> TRUE, tags |-> <<>>]

ConvOff ==
    /\ cPc = "off"
    /\ cContent = ""
    /\ cSettings = [dateOption |-> "none", dateFormat |-> "YYYY-MM-DD", importTags |-> TRUE]
    /\ cCacheTags = NullCache
    /\ frontmatter = ""
    /\ mainContent = ""
    /\ newFrontmatter = ""
    /\ fileTags = <<>>
    /\ preHeaderContent = ""
    /\ convertedContent = ""
    /\ resolverCalls = <<>>
    /\ cOutput = ""

InitEmbed ==
    /\ ConvOff
    /\ ExportOff
    /\ ePc = "idle"
    /\ embedPromises = <<>>
    /\ settled = <<>>
    /\ eResult = ""
    /\ \/ eContent \in EmbedTexts /\ vault = VaultOf(FixedNote)
       \/ eContent \in ScopedEmbeds /\ vault \in {VaultOf(t) : t \in NoteTexts}

NextEmbed ==
    \/ StartConvertEmbeddedNotes
    \/ \E i \in 1..Len(embedPromises) : ResolveEmbed(i)
    \/ \E i \in 1..Len(embedPromises) : RejectEmbed(i)
    \/ FinishConvertEmbeddedNotes

SpecEmbed == InitEmbed /\ [][NextEmbed]_vars

(***************************************************************************)
(* Line-level reading of the scoped embeds, as the documentation states    *)
(* them (used only to state C5 and C9).                                    *)
(***************************************************************************)
HashCount(line) == Run(line, 1, "hash")
IsHeaderLine(line) ==
    HashCount(line) >= 1 /\ (HashCount(line) = Len(line) \/ IsWs(At(line, HashCount(line) + 1)))
HeaderText(line) == Trim(From(line, HashCount(line) + 1))

SubLines(lines, a, b) == [k \in 1..(b - a + 1) |-> lines[a + k - 1]]

DocHeaderEmbed(content, heading, noteName) ==
    LET lines == Split(content)
        hits == {i \in 1..Len(lines) :
                   IsHeaderLine(lines[i]) /\ LowerStr(HeaderText(lines[i])) = LowerStr(heading)}
    IN  IF hits = {} THEN Warning("Header not found: " \o heading \o " in " \o noteName)
        ELSE LET i == Min(hits)
                 ends == {j \in (i + 1)..Len(lines) :
                            IsHeaderLine(lines[j]) /\ HashCount(lines[j]) <= HashCount(lines[i])}
                 j == IF ends = {} THEN Len(lines) + 1 ELSE Min(ends)
             IN  Wrap(Trim(StripBlockRef(Join(SubLines(lines, i, j - 1), NL))))

EndsWithMarker(line, blockId) ==
    LET t == TrimEnd(line)
    IN  Len(t) >= Len(blockId) + 1 /\ IsAt(t, Len(t) - Len(blockId), "^" \o blockId)
WithoutMarker(line, blockId) ==
    LET t == TrimEnd(line)
    IN  IF EndsWithMarker(line, blockId)
        THEN TrimEnd(Sub(t, 1, Len(t) - Len(blockId) - 1)) ELSE line

DocBlockEmbed(content, blockId, noteName) ==
    LET lines == Split(content)
        hits == {i \in 1..Len(lines) : EndsWithMarker(lines[i], blockId)}
    IN  IF hits = {} THEN Warning("Block not found: " \o blockId \o " in " \o noteName)
        ELSE LET i == Min(hits)
                 before == {j \in 1..(i - 1) : lines[j] = ""}
                 after == {j \in (i + 1)..Len(lines) : lines[j] = ""}
                 first == IF before = {} THEN 1 ELSE Max(before) + 1
                 last == IF after = {} THEN Len(lines) ELSE Min(after) - 1
                 para == [k \in 1..(last - first + 1) |->
                            WithoutMarker(lines[first + k - 1], blockId)]
             IN  Wrap(Trim(Join(para, NL)))

Fulfilled(i) == i \in 1..Len(embedPromises) /\ embedPromises[i].state = "fulfilled"
NoteOf(i) == vault[embedPromises[i].noteName]
Resolvable(i) ==
    embedPromises[i].noteName \in DOMAIN vault /\ NoteOf(i) # NoFile

\* C5: a header-scoped embed is replaced by the lines from the first header
\* whose text equals the heading (case-insensitively) up to the next header
\* of equal or shallower level, and by "Header not found" when no header
\* line matches.
C5_HeaderScope ==
    \A i \in 1..Len(embedPromises) :
        (Fulfilled(i) /\ Resolvable(i) /\ StartsWith(embedPromises[i].reference, "#"))
            => embedPromises[i].value =
                 DocHeaderEmbed(NoteOf(i), From(embedPromises[i].reference, 2),
                                embedPromises[i].noteName)

\* C9: a block-scoped embed is replaced by the whole paragraph that holds
\* the line ending in ^id, with the marker removed, and by "Block not
\* found" when no line ends in ^id.
C9_BlockScope ==
    \A i \in 1..Len(embedPromises) :
        (Fulfilled(i) /\ Resolvable(i) /\ StartsWith(embedPromises[i].reference, "^"))
            => embedPromises[i].value =
                 DocBlockEmbed(NoteOf(i), From(embedPromises[i].reference, 2),
                               embedPromises[i].noteName)

(***************************************************************************)
(* C3                                                                      *)
(***************************************************************************)
\* the text between the (k-1)-th and the k-th token (k = n+1: after the last)
Outside(s, ms, k) ==
    Sub(s, IF k = 1 THEN 1 ELSE ms[k - 1].end,
           IF k > Len(ms) THEN Len(s) ELSE ms[k].start - 1)

RECURSIVE Interleaved(_, _, _)
Interleaved(s, ms, k) ==
    IF k > Len(ms) THEN Outside(s, ms, k)
    ELSE Outside(s, ms, k)
           \o getEmbeddedNoteContent(ms[k].noteName, ms[k].reference)
           \o Interleaved(s, ms, k + 1)

\* C3: whatever the order in which the resolutions complete, the i-th token
\* in scan order is replaced by the resolution of the i-th token's
\* (noteName, reference), one replacement per resolution started, and the
\* text outside the tokens is unchanged.
C3_OrderPreserving ==
    ePc = "done" =>
        LET ms == EmbedMatches(eContent)
        IN  /\ Len(embedPromises) = Len(ms)
            /\ Len(settled) = Len(ms)
            /\ eResult = Interleaved(eContent, ms, 1)

\* text, then two tokens with different results, the second fulfilled first
C3_Witness ==
    /\ ePc = "done"
    /\ StartsWith(eContent, "x![[")
    /\ Len(embedPromises) = 2
    /\ settled = <<2, 1>>
    /\ embedPromises[1].value # embedPromises[2].value
    /\ eResult = "x" \o embedPromises[1].value \o embedPromises[2].value

\* the pure result of convertEmbeddedNotes when no read fails (see C3)
convertEmbeddedNotes(content) ==
    LET ms == EmbedMatches(content)
    IN  ReplaceEmbeds(content, ms, 1, 1,
                      [i \in 1..Len(ms) |->
                          getEmbeddedNoteContent(ms[i].noteName, ms[i].reference)])

(***************************************************************************)
(* convertToQuarto: the passes                                             *)
(***************************************************************************)
\* content.replace(/!\[\[([^\]]+?)\]\]/g, '![]($1)') from position i
RECURSIVE ImagesFrom(_, _)
ImagesFrom(s, i) ==
    IF i > Len(s) THEN ""
    ELSE LET n == Run(s, i + 3, "notrb")
         IN  IF IsAt(s, i, "![[") /\ n >= 1 /\ IsAt(s, i + 3 + n, "]]")
             THEN "![](" \o Sub(s, i + 3, i + 2 + n) \o ")" \o ImagesFrom(s, i + 5 + n)
             ELSE At(s, i) \o ImagesFrom(s, i + 1)

convertObsidianImages(content) == ImagesFrom(content, 1)

\* content.match(/^---\n[\s\S]*?\n---\n/): the length of the match, 0 when none
FrontmatterLength(content) ==
    IF StartsWith(content, "---" \o NL)
    THEN LET k == IndexOf(content, NL \o "---" \o NL, 5)
         IN  IF k = 0 THEN 0 ELSE k + 4
    ELSE 0

\* String.prototype.replace(lit, by) with a string pattern: first occurrence only
ReplaceFirst(s, lit, by) ==
    LET k == IndexOf(s, lit, 1)
    IN  IF k = 0 THEN s ELSE Sub(s, 1, k - 1) \o by \o From(s, k + Len(lit))

\* getFileTags: cache.tags is what getAllTags(fileCache) returns; cache.isNull
\* stands for a missing file cache or a null result
getFileTags(cache) ==
    IF cache.isNull THEN <<>>
    ELSE [i \in 1..Len(cache.tags) |-> ReplaceFirst(cache.tags[i], "#", "")]

PadStart2(str) == IF Len(str) < 2 THEN "0" \o str ELSE str

\* formatDate; date is [year, month, day, hours, minutes, seconds] with
\* month already getMonth() + 1
formatDate(format, date) ==
    LET f1 == ReplaceFirst(format, "YYYY", ToString(date.year))
        f2 == ReplaceFirst(f1, "MM", PadStart2(ToString(date.month)))
        f3 == ReplaceFirst(f2, "DD", PadStart2(ToString(date.day)))
        f4 == ReplaceFirst(f3, "HH", PadStart2(ToString(date.hours)))
        f5 == ReplaceFirst(f4, "mm", PadStart2(ToString(date.minutes)))
    IN  ReplaceFirst(f5, "ss", PadStart2(ToString(date.seconds)))

\* getFileDate: stat.kind is "null", "throws" or "ok" (then with ctime and
\* mtime); now is new Date()
getFileDate(dateOption, format, stat, now) ==
    IF stat.kind \in {"null", "throws"} THEN formatDate(format, now)
    ELSE formatDate(format, IF dateOption = "created" THEN stat.ctime ELSE stat.mtime)

TitleLine(basename) == "---" \o NL \o "title: \"" \o basename \o "\"" \o NL
DateLine(date) == "date: \"" \o date \o "\"" \o NL

RECURSIVE TagItems(_)
TagItems(tags) ==
    IF Len(tags) = 0 THEN <<>> ELSE <<"  - " \o Head(tags)>> \o TagItems(Tail(tags))

\* lines 113-118
TagsBlock(importTags, tags) ==
    IF importTags /\ Len(tags) > 0
    THEN "tags:" \o NL \o Join(TagItems(tags), NL) \o NL
    ELSE ""

\* the filter of line 125
KeepLine(line) == ~StartsWith(line, "tags:") /\ ~StartsWith(Trim(line), "-")

RECURSIVE FilterLines(_)
FilterLines(lines) ==
    IF Len(lines) = 0 THEN <<>>
    ELSE (IF KeepLine(Head(lines)) THEN <<Head(lines)>> ELSE <<>>) \o FilterLines(Tail(lines))

\* lines 121-128: frontmatter.slice(4, -4).split('\n').filter(...).join('\n') + '\n'
ExistingFrontmatter(fm) ==
    IF fm = "" THEN ""
    ELSE Join(FilterLines(Split(Sub(fm, 5, Len(fm) - 4))), NL) \o NL

\* convertedContent.search(/^\s*#/m): 1-based, 0 when absent
FirstHeaderIndex(s) ==
    LET ps == {p \in 1..Len(s) : LineStart(s, p) /\ At(s, p + Run(s, p, "ws")) = "#"}
    IN  IF ps = {} THEN 0 ELSE Min(ps)

\* lines 135-140
PreHeaderContent(body) ==
    LET i == FirstHeaderIndex(body)
    IN  IF i # 0 THEN Trim(Sub(body, 1, i - 1)) \o NL \o NL ELSE ""
AfterPreHeader(body) ==
    LET i == FirstHeaderIndex(body)
    IN  IF i # 0 THEN From(body, i) ELSE body

\* convertedContent.replace(/^(#+\s.*)/gm, '\n$1') from position i
RECURSIVE HeaderSpacingFrom(_, _)
HeaderSpacingFrom(s, i) ==
    IF i > Len(s) THEN ""
    ELSE LET k == Run(s, i, "hash")
         IN  IF LineStart(s, i) /\ k >= 1 /\ IsWs(At(s, i + k))
             THEN LET e == i + k + 1 + Run(s, i + k + 1, "notnl")
                  IN  NL \o Sub(s, i, e - 1) \o HeaderSpacingFrom(s, e)
             ELSE At(s, i) \o HeaderSpacingFrom(s, i + 1)

HeaderSpacing(s) == HeaderSpacingFrom(s, 1)

mapCalloutType(obsidianType) ==
    LET t == LowerStr(obsidianType)
    IN  CASE t = "note" -> "note"
          [] t = "info" -> "info"
          [] t = "tip" -> "tip"
          [] t = "success" -> "success"
          [] t = "question" -> "question"
          [] t = "warning" -> "warning"
          [] t = "failure" -> "error"
          [] t = "danger" -> "warning"
          [] t = "bug" -> "bug"
          [] t = "example" -> "example"
          [] t = "quote" -> "quote"
          [] OTHER -> "note"

\* ((?:>.*\n?)*) from position i: the position after the last quoted line
RECURSIVE QuotedEnd(_, _)
QuotedEnd(s, i) ==
    IF At(s, i) = ">"
    THEN LET e == i + 1 + Run(s, i + 1, "notnl")
         IN  IF At(s, e) = NL THEN QuotedEnd(s, e + 1) ELSE e
    ELSE i

\* content.replace(/^>/gm, '') from position i
RECURSIVE UnquoteFrom(_, _)
UnquoteFrom(s, i) ==
    IF i > Len(s) THEN ""
    ELSE IF LineStart(s, i) /\ At(s, i) = ">" THEN UnquoteFrom(s, i + 1)
    ELSE At(s, i) \o UnquoteFrom(s, i + 1)

CalloutBlock(type, title, content) ==
    "::: {.callout-" \o mapCalloutType(type) \o "}" \o NL
      \o (IF Trim(title) # "" THEN "## " \o Trim(title) \o NL ELSE "")
      \o Trim(UnquoteFrom(content, 1)) \o NL \o ":::" \o NL \o NL

\* replace(/> \[!(\w+)\](.*?)\n((?:>.*\n?)*)/g, ...) from position i
RECURSIVE CalloutsFrom(_, _)
CalloutsFrom(s, i) ==
    IF i > Len(s) THEN ""
    ELSE LET w == Run(s, i + 4, "word")
             t == i + 4 + w + 1
             n == t + Run(s, t, "notnl")
         IN  IF IsAt(s, i, "> [!") /\ w >= 1 /\ At(s, i + 4 + w) = "]" /\ At(s, n) = NL
             THEN LET e == QuotedEnd(s, n + 1)
                  IN  CalloutBlock(Sub(s, i + 4, i + 3 + w), Sub(s, t, n - 1),
                                   Sub(s, n + 1, e - 1))
                        \o CalloutsFrom(s, e)
             ELSE At(s, i) \o CalloutsFrom(s, i + 1)

Callouts(s) == CalloutsFrom(s, 1)

(***************************************************************************)
(* convertToQuarto, pass by pass                                           *)
(***************************************************************************)
Basename == "Note"
StatTimes == [kind |-> "ok",
              ctime |-> [year |-> 2024, month |-> 1, day |-> 2,
                         hours |-> 3, minutes |-> 4, seconds |-> 5],
              mtime |-> [year |-> 2025, month |-> 11, day |-> 12,
                         hours |-> 13, minutes |-> 14, seconds |-> 15]]
Now == [year |-> 2026, month |-> 6, day |-> 7, hours |-> 8, minutes |-> 9, seconds |-> 10]

\* lines 95-105
CExtract ==
    /\ cPc = "extract"
    /\ LET n == FrontmatterLength(cContent)
       IN  /\ frontmatter' = Sub(cContent, 1, n)
           /\ mainContent' = From(cContent, n + 1)
    /\ newFrontmatter' = TitleLine(Basename)
    /\ cPc' = "date"
    /\ UNCHANGED <<cContent, cSettings, cCacheTags, fileTags, preHeaderContent,
                   convertedContent, resolverCalls, cOutput>>
    /\ UNCHANGED <<embedVars, exportVars>>

\* lines 107-110, with getFileDate's three outcomes of adapter.stat
CDate ==
    /\ cPc = "date"
    /\ IF cSettings.dateOption # "none"
       THEN \E stat \in {[StatTimes EXCEPT !.kind = k] : k \in {"ok", "null", "throws"}} :
              newFrontmatter' = newFrontmatter \o
                 DateLine(getFileDate(cSettings.dateOption, cSettings.dateFormat, stat, Now))
       ELSE UNCHANGED newFrontmatter
    /\ cPc' = "tags"
    /\ UNCHANGED <<cContent, cSettings, cCacheTags, frontmatter, mainContent, fileTags,
                   preHeaderContent, convertedContent, resolverCalls, cOutput>>
    /\ UNCHANGED <<embedVars, exportVars>>

\* lines 113-118
CTags ==
    /\ cPc = "tags"
    /\ fileTags' = IF cSettings.importTags THEN getFileTags(cCacheTags) ELSE <<>>
    /\ newFrontmatter' = newFrontmatter \o TagsBlock(cSettings.importTags, fileTags')
    /\ cPc' = "merge"
    /\ UNCHANGED <<cContent, cSettings, cCacheTags, frontmatter, mainContent,
                   preHeaderContent, convertedContent, resolverCalls, cOutput>>
    /\ UNCHANGED <<embedVars, exportVars>>

\* lines 121-129
CMerge ==
    /\ cPc = "merge"
    /\ newFrontmatter' = newFrontmatter \o ExistingFrontmatter(frontmatter)
                           \o "---" \o NL \o NL
    /\ cPc' = "preheader"
    /\ UNCHANGED <<cContent, cSettings, cCacheTags, frontmatter, mainContent, fileTags,
                   preHeaderContent, convertedContent, resolverCalls, cOutput>>
    /\ UNCHANGED <<embedVars, exportVars>>

\* lines 132-140
CPreHeader ==
    /\ cPc = "preheader"
    /\ preHeaderContent' = PreHeaderContent(mainContent)
    /\ convertedContent' = AfterPreHeader(mainContent)
    /\ cPc' = "images"
    /\ UNCHANGED <<cContent, cSettings, cCacheTags, frontmatter, mainContent, fileTags,
                   newFrontmatter, resolverCalls, cOutput>>
    /\ UNCHANGED <<embedVars, exportVars>>

\* line 143
CImages ==
    /\ cPc = "images"
    /\ convertedContent' = convertObsidianImages(convertedContent)
    /\ cPc' = "embeds"
    /\ UNCHANGED <<cContent, cSettings, cCacheTags, frontmatter, mainContent, fileTags,
                   newFrontmatter, preHeaderContent, resolverCalls, cOutput>>
    /\ UNCHANGED <<embedVars, exportVars>>

CallsOf(s) ==
    LET ms == EmbedMatches(s)
    IN  [i \in 1..Len(ms) |-> <<ms[i].noteName, ms[i].reference>>]

\* line 145, every read succeeding
CEmbeds ==
    /\ cPc = "embeds"
    /\ resolverCalls' = CallsOf(convertedContent)
    /\ convertedContent' = convertEmbeddedNotes(convertedContent)
    /\ cPc' = "headers"
    /\ UNCHANGED <<cContent, cSettings, cCacheTags, frontmatter, mainContent, fileTags,
                   newFrontmatter, preHeaderContent, cOutput>>
    /\ UNCHANGED <<embedVars, exportVars>>

\* line 145, vault.read of an embedded note throwing: convertToQuarto throws
CEmbedsFail ==
    /\ cPc = "embeds"
    /\ \E i \in 1..Len(CallsOf(convertedContent)) :
          LET n == CallsOf(convertedContent)[i][1]
          IN  n \in DOMAIN vault /\ vault[n] # NoFile
    /\ resolverCalls' = CallsOf(convertedContent)
    /\ cPc' = "failed"
    /\ UNCHANGED <<cContent, cSettings, cCacheTags, frontmatter, mainContent, fileTags,
                   newFrontmatter, preHeaderContent, convertedContent, cOutput>>
    /\ UNCHANGED <<embedVars, exportVars>>

\* line 148
CHeaders ==
    /\ cPc = "headers"
    /\ convertedContent' = HeaderSpacing(convertedContent)
    /\ cPc' = "callouts"
    /\ UNCHANGED <<cContent, cSettings, cCacheTags, frontmatter, mainContent, fileTags,
                   newFrontmatter, preHeaderContent, resolverCalls, cOutput>>
    /\ UNCHANGED <<embedVars, exportVars>>

\* lines 151-157
CCallouts ==
    /\ cPc = "callouts"
    /\ convertedContent' = Callouts(convertedContent)
    /\ cPc' = "combine"
    /\ UNCHANGED <<cContent, cSettings, cCacheTags, frontmatter, mainContent, fileTags,
                   newFrontmatter, preHeaderContent, resolverCalls, cOutput>>
    /\ UNCHANGED <<embedVars, exportVars>>

\* line 160
CCombine ==
    /\ cPc = "combine"
    /\ cOutput' = newFrontmatter \o preHeaderContent \o convertedContent
    /\ cPc' = "done"
    /\ UNCHANGED <<cContent, cSettings, cCacheTags, frontmatter, mainContent, fileTags,
                   newFrontmatter, preHeaderContent, convertedContent, resolverCalls>>
    /\ UNCHANGED <<embedVars, exportVars>>

MaxTags == 2
TagPool == {"#a", "#t1"}

SourceFrontmatters ==
    {"",
     "---\ntitle: Old\n---\n",
     "---\ntags: [o]\nk: v\n---\n",
     "---\ndate: 2020\ntags:\n  - o\n---\n",
     "---\nk: v\n"}
SourceBodies ==
    {"# Title\nHello #t1",
     "Hello",
     "intro\n## T\nx",
     "![[N]]",
     "![[N#a]] ![[p.png]]\n",
     "# T\n![[N^b]]\n![[M]]",
     "![[N#a]b]]",
     "> [!DANGER] Ti\n> body\nrest"}
SourceTexts == {f \o b : f \in SourceFrontmatters, b \in SourceBodies}

InitConvert ==
    /\ ExportOff
    /\ ePc = "off"
    /\ eContent = ""
    /\ vault = VaultOf(FixedNote)
    /\ embedPromises = <<>>
    /\ settled = <<>>
    /\ eResult = ""
    /\ cPc = "extract"
    /\ cContent \in SourceTexts
    /\ cSettings \in [dateOption : {"none", "created", "modified"},
                      dateFormat : {"YYYY-MM-DD"},
                      importTags : BOOLEAN]
    /\ cCacheTags \in {NullCache} \cup {[isNull |-> FALSE, tags |-> q] : q \in SeqsUpTo(TagPool, MaxTags)}
    /\ frontmatter = ""
    /\ mainContent = ""
    /\ newFrontmatter = ""
    /\ fileTags = <<>>
    /\ preHeaderContent = ""
    /\ convertedContent = ""
    /\ resolverCalls = <<>>
    /\ cOutput = ""

NextConvert ==
    \/ CExtract
    \/ CDate
    \/ CTags
    \/ CMerge
    \/ CPreHeader
    \/ CImages
    \/ CEmbeds
    \/ CEmbedsFail
    \/ CHeaders
    \/ CCallouts
    \/ CCombine

SpecConvert == InitConvert /\ [][NextConvert]_vars

(***************************************************************************)
(* C2, C6, C7, C8                                                          *)
(***************************************************************************)
\* the body text the passes work on (after the pre-header split)
PassInput == AfterPreHeader(mainContent)

\* C2: every note-embed token of the body is consumed by the Embed Resolver
\* (the embed pass runs first), and the image rewrite only sees the
\* bracket-embeds left after it.
C2_EmbedsBeforeImages ==
    cPc = "done" => resolverCalls = CallsOf(PassInput)

RECURSIVE CountLines(_, _)
CountLines(lines, prefix) ==
    IF Len(lines) = 0 THEN 0
    ELSE (IF StartsWith(Head(lines), prefix) THEN 1 ELSE 0) + CountLines(Tail(lines), prefix)

SeqToSet(q) == {q[i] : i \in 1..Len(q)}
IsComputedKey(line) ==
    StartsWith(line, "title:") \/ StartsWith(line, "date:") \/ StartsWith(line, "tags:")
SourceKeyLines ==
    {l \in SeqToSet(Split(Sub(frontmatter, 5, Len(frontmatter) - 5))) :
        l # "" /\ ~IsComputedKey(l) /\ ~StartsWith(Trim(l), "-")}

\* C6: in the emitted block title, date and tags each occur at most once and
\* carry the computed value (a same-named source key is overridden), and
\* every other source key line is passed through unchanged.
C6_ComputedKeysOnce ==
    cPc = "done" =>
        LET lines == Split(newFrontmatter)
        IN  /\ CountLines(lines, "title:") = 1
            /\ lines[2] = "title: \"" \o Basename \o "\""
            /\ CountLines(lines, "date:") = (IF cSettings.dateOption = "none" THEN 0 ELSE 1)
            /\ CountLines(lines, "tags:") <= 1
            /\ SourceKeyLines \subseteq SeqToSet(lines)

\* C7: getFileTags returns each distinct tag of the metadata view exactly
\* once, with the leading # stripped.
C7_TagsDeduplicated ==
    (cPc \notin {"extract", "date", "tags"} /\ cSettings.importTags /\ ~cCacheTags.isNull) =>
        /\ \A i, j \in 1..Len(fileTags) : fileTags[i] = fileTags[j] => i = j
        /\ SeqToSet(fileTags) = {ReplaceFirst(t, "#", "") : t \in SeqToSet(cCacheTags.tags)}

\* the text of the body before its first header, trimmed
PreHeaderText ==
    LET i == FirstHeaderIndex(mainContent)
    IN  IF i = 0 THEN "" ELSE Trim(Sub(mainContent, 1, i - 1))

\* C8: the output is the new metadata block, closed by a --- line and one
\* blank line, directly followed by the body: the pre-header handling adds
\* no blank line of its own when there is no text before the first header.
C8_OneBlankLine ==
    cPc = "done" =>
        /\ StartsWith(cOutput, "---" \o NL \o "title: ")
        /\ cOutput = newFrontmatter
                       \o (IF PreHeaderText = "" THEN "" ELSE PreHeaderText \o NL \o NL)
                       \o convertedContent
        /\ IsAt(newFrontmatter, Len(newFrontmatter) - 4, "---" \o NL \o NL)

(***************************************************************************)
(* exportToQuarto                                                          *)
(***************************************************************************)
\* convertToQuarto as one function (no embedded read failing)
convertToQuarto(content, st, cache, stat) ==
    LET n == FrontmatterLength(content)
        fm == Sub(content, 1, n)
        body == From(content, n + 1)
        head == TitleLine(Basename)
                  \o (IF st.dateOption # "none"
                      THEN DateLine(getFileDate(st.dateOption, st.dateFormat, stat, Now))
                      ELSE "")
                  \o TagsBlock(st.importTags,
                               IF st.importTags THEN getFileTags(cache) ELSE <<>>)
                  \o ExistingFrontmatter(fm) \o "---" \o NL \o NL
    IN  head \o PreHeaderContent(body)
          \o Callouts(HeaderSpacing(convertEmbeddedNotes(
                 convertObsidianImages(AfterPreHeader(body)))))

\* DEFAULT_SETTINGS, lines 11-17
DefaultConversion == [dateOption |-> "none", dateFormat |-> "YYYY-MM-DD", importTags |-> TRUE]
ActiveCache == [isNull |-> FALSE, tags |-> <<"#t1">>]
ParentPath == "notes"

MaxExports == 3
MaxExisting == 2

\* `${activeFile.basename}_${counter}.qmd` (variant: the counter read one too far)
ProbeFileNameSkipping(k) == Basename \o "_" \o ToString(k + 1) \o ".qmd"
\* line 68
ProbeFileName(k) == Basename \o "_" \o ToString(k) \o ".qmd"
\* lines 57 and 69
PathOf(folder, name) == folder \o "/" \o name
\* line 55
OutputFolder == IF settings.outputFolder # "" THEN settings.outputFolder ELSE ParentPath
\* line 56
BaseFileName == Basename \o ".qmd"

\* the k-th numbered name of the note in a folder listing
NumberedName(k) == Basename \o "_" \o ToString(k) \o ".qmd"
FileNames == {BaseFileName} \cup {NumberedName(k) : k \in 1..(MaxExisting + MaxExports + 1)}
AllPaths == {PathOf(f, n) : f \in {ParentPath, "out"}, n \in FileNames}
Exists(path) == path \in DOMAIN files /\ files[path] # NoFile

Call(op, path, threw) == [op |-> op, path |-> path, threw |-> threw]
FailedNotice == "Failed to export to Quarto QMD. Check console for details."

\* lines 82-85: the catch block
Caught(call) ==
    /\ calls' = Append(calls, call)
    /\ notices' = Append(notices, FailedNotice)
    /\ xPc' = "finished"

ActiveTexts == {"# Title\nHello #t1", "x\n## T\n![[N#a]b]]"}
ActiveFiles ==
    {[kind |-> "none", content |-> ""], [kind |-> "txt", content |-> "plain"]}
      \cup {[kind |-> "md", content |-> t] : t \in ActiveTexts}

\* line 47
PreconditionFails(file) == file.kind = "none" \/ file.kind # "md"

\* the command fires: lines 46-50
ExportStart ==
    /\ xPc \in {"idle", "finished"}
    /\ exportsDone < MaxExports
    /\ \E f \in ActiveFiles :
          /\ activeFile' = f
          /\ IF PreconditionFails(f)
             THEN /\ notices' = <<"Please open a Markdown file before exporting">>
                  /\ xPc' = "finished"
             ELSE /\ notices' = <<>>
                  /\ xPc' = "read"
    /\ calls' = <<>>
    /\ filesAtStart' = files
    /\ exportsDone' = exportsDone + 1
    /\ xContent' = ""
    /\ xConverted' = ""
    /\ newFileName' = ""
    /\ newPath' = ""
    /\ counter' = 0
    /\ UNCHANGED <<settings, files, folders>>
    /\ UNCHANGED <<embedVars, convVars>>

\* line 52
XRead ==
    /\ xPc = "read"
    /\ \/ /\ xContent' = activeFile.content
          /\ calls' = Append(calls, Call("read", "", FALSE))
          /\ xPc' = "convert"
          /\ UNCHANGED notices
       \/ /\ Caught(Call("read", "", TRUE))
          /\ UNCHANGED xContent
    /\ UNCHANGED <<settings, activeFile, files, folders, xConverted, newFileName, newPath,
                   counter, filesAtStart, exportsDone>>
    /\ UNCHANGED <<embedVars, convVars>>

\* lines 53-57; the conversion throws when the read of an embedded note does
XConvert ==
    /\ xPc = "convert"
    /\ \/ /\ xConverted' = convertToQuarto(xContent, DefaultConversion, ActiveCache, StatTimes)
          /\ newFileName' = BaseFileName
          /\ newPath' = PathOf(OutputFolder, BaseFileName)
          /\ xPc' = "mkdir"
          /\ UNCHANGED <<calls, notices>>
       \/ /\ \E i \in 1..Len(CallsOf(convertObsidianImages(AfterPreHeader(xContent)))) :
                LET n == CallsOf(convertObsidianImages(AfterPreHeader(xContent)))[i][1]
                IN  n \in DOMAIN vault /\ vault[n] # NoFile
          /\ Caught(Call("read", "embedded", TRUE))
          /\ UNCHANGED <<xConverted, newFileName, newPath>>
    /\ UNCHANGED <<settings, activeFile, files, folders, xContent, counter, filesAtStart,
                   exportsDone>>
    /\ UNCHANGED <<embedVars, convVars>>

\* variant: a failed mkdir is swallowed and the export goes on
XMkdirSwallowing ==
    /\ xPc = "mkdir"
    /\ \/ /\ folders' = folders \cup {OutputFolder}
          /\ calls' = Append(calls, Call("mkdir", OutputFolder, FALSE))
       \/ /\ calls' = Append(calls, Call("mkdir", OutputFolder, TRUE))
          /\ UNCHANGED folders
    /\ xPc' = "exists"
    /\ UNCHANGED <<settings, activeFile, files, xContent, xConverted, newFileName, newPath,
                   counter, notices, filesAtStart, exportsDone>>
    /\ UNCHANGED <<embedVars, convVars>>

\* line 59
XMkdir ==
    /\ xPc = "mkdir"
    /\ \/ /\ folders' = folders \cup {OutputFolder}
          /\ calls' = Append(calls, Call("mkdir", OutputFolder, FALSE))
          /\ xPc' = "exists"
          /\ UNCHANGED notices
       \/ /\ Caught(Call("mkdir", OutputFolder, TRUE))
          /\ UNCHANGED folders
    /\ UNCHANGED <<settings, activeFile, files, xContent, xConverted, newFileName, newPath,
                   counter, filesAtStart, exportsDone>>
    /\ UNCHANGED <<embedVars, convVars>>

\* variant: the existing file is removed whatever the setting says
XExistsAlwaysRemoving ==
    /\ xPc = "exists"
    /\ calls' = Append(calls, Call("exists", newPath, FALSE))
    /\ xPc' = IF Exists(newPath) THEN "remove" ELSE "create"
    /\ UNCHANGED <<settings, activeFile, files, folders, xContent, xConverted, newFileName,
                   newPath, counter, notices, filesAtStart, exportsDone>>
    /\ UNCHANGED <<embedVars, convVars>>

\* lines 62-66: the first exists check and the branch on overwriteExisting
XExists ==
    /\ xPc = "exists"
    /\ \/ /\ calls' = Append(calls, Call("exists", newPath, FALSE))
          /\ IF Exists(newPath)
             THEN IF settings.overwriteExisting
                  THEN xPc' = "remove" /\ UNCHANGED counter
                  ELSE xPc' = "probe" /\ counter' = 1
             ELSE xPc' = "create" /\ UNCHANGED counter
          /\ UNCHANGED notices
       \/ /\ Caught(Call("exists", newPath, TRUE))
          /\ UNCHANGED counter
    /\ UNCHANGED <<settings, activeFile, files, folders, xContent, xConverted, newFileName,
                   newPath, filesAtStart, exportsDone>>
    /\ UNCHANGED <<embedVars, convVars>>

\* line 64
XRemove ==
    /\ xPc = "remove"
    /\ \/ /\ files' = [files EXCEPT ![newPath] = NoFile]
          /\ calls' = Append(calls, Call("remove", newPath, FALSE))
          /\ xPc' = "create"
          /\ UNCHANGED notices
       \/ /\ Caught(Call("remove", newPath, TRUE))
          /\ UNCHANGED files
    /\ UNCHANGED <<settings, activeFile, folders, xContent, xConverted, newFileName, newPath,
                   counter, filesAtStart, exportsDone>>
    /\ UNCHANGED <<embedVars, convVars>>

\* lines 67-71: one evaluation of the while condition and, when it holds, the body
XProbe ==
    /\ xPc = "probe"
    /\ \/ /\ calls' = Append(calls, Call("exists", newPath, FALSE))
          /\ IF Exists(newPath)
             THEN /\ newFileName' = ProbeFileName(counter)
                  /\ newPath' = PathOf(OutputFolder, ProbeFileName(counter))
                  /\ counter' = counter + 1
                  /\ UNCHANGED xPc
             ELSE /\ xPc' = "create"
                  /\ UNCHANGED <<newFileName, newPath, counter>>
          /\ UNCHANGED notices
       \/ /\ Caught(Call("exists", newPath, TRUE))
          /\ UNCHANGED <<newFileName, newPath, counter>>
    /\ UNCHANGED <<settings, activeFile, files, folders, xContent, xConverted,
                   filesAtStart, exportsDone>>
    /\ UNCHANGED <<embedVars, convVars>>

\* line 75
XCreate ==
    /\ xPc = "create"
    /\ \/ /\ ~Exists(newPath)
          /\ files' = [files EXCEPT ![newPath] = xConverted]
          /\ calls' = Append(calls, Call("create", newPath, FALSE))
          /\ xPc' = "open"
          /\ UNCHANGED notices
       \/ /\ Caught(Call("create", newPath, TRUE))
          /\ UNCHANGED files
    /\ UNCHANGED <<settings, activeFile, folders, xContent, xConverted, newFileName, newPath,
                   counter, filesAtStart, exportsDone>>
    /\ UNCHANGED <<embedVars, convVars>>

\* lines 77-81
XOpen ==
    /\ xPc = "open"
    /\ \/ /\ calls' = Append(calls, Call("open", newPath, FALSE))
          /\ notices' = Append(notices, "Successfully exported to " \o newFileName)
          /\ xPc' = "finished"
       \/ Caught(Call("open", newPath, TRUE))
    /\ UNCHANGED <<settings, activeFile, files, folders, xContent, xConverted, newFileName,
                   newPath, counter, filesAtStart, exportsDone>>
    /\ UNCHANGED <<embedVars, convVars>>

\* lines 349-357: the Overwrite Existing Files toggle, between two exports;
\* "idle" again: the record of the last invocation no longer goes with the settings
SetOverwriteExisting ==
    /\ xPc \in {"idle", "finished"}
    /\ exportsDone < MaxExports
    /\ settings' = [settings EXCEPT !.overwriteExisting = ~settings.overwriteExisting]
    /\ xPc' = "idle"
    /\ UNCHANGED <<activeFile, files, folders, xContent, xConverted, newFileName,
                   newPath, counter, calls, notices, filesAtStart, exportsDone>>
    /\ UNCHANGED <<embedVars, convVars>>

InitialNames == {BaseFileName} \cup {NumberedName(k) : k \in 1..MaxExisting}

Init ==
    /\ ePc = "off"
    /\ eContent = ""
    /\ vault = VaultOf(FixedNote)
    /\ embedPromises = <<>>
    /\ settled = <<>>
    /\ eResult = ""
    /\ ConvOff
    /\ xPc = "idle"
    /\ settings \in [overwriteExisting : {FALSE}, outputFolder : {"", "out"}]
    /\ activeFile = [kind |-> "none", content |-> ""]
    /\ \E present \in SUBSET InitialNames :
          files = [p \in AllPaths |->
                     IF p \in {PathOf(OutputFolder, n) : n \in present} THEN "old" ELSE NoFile]
    /\ folders = {ParentPath}
    /\ xContent = ""
    /\ xConverted = ""
    /\ newFileName = ""
    /\ newPath = ""
    /\ counter = 0
    /\ calls = <<>>
    /\ notices = <<>>
    /\ filesAtStart = files
    /\ exportsDone = 0

Next ==
    \/ ExportStart
    \/ XRead
    \/ XConvert
    \/ XMkdir
    \/ XExists
    \/ XRemove
    \/ XProbe
    \/ XCreate
    \/ XOpen
    \/ SetOverwriteExisting

Spec == Init /\ [][Next]_vars

(***************************************************************************)
(* C1, C4, C10                                                             *)
(***************************************************************************)
CallIndexes(op) == {i \in 1..Len(calls) : calls[i].op = op}
BasePath == PathOf(OutputFolder, BaseFileName)

\* the name the collision policy asks for, given the files at the start
FirstFreeName(fs, folder) ==
    IF fs[PathOf(folder, BaseFileName)] = NoFile THEN BaseFileName
    ELSE NumberedName(Min({k \in 1..(MaxExisting + MaxExports + 1) :
                              fs[PathOf(folder, NumberedName(k))] = NoFile}))

\* C1: with overwriteExisting = false an export never removes and never
\* creates at an existing path; it creates <basename>.qmd when that is free
\* and else <basename>_k.qmd for the smallest free k >= 1, and every file
\* that existed keeps its content.
C1_CollisionPolicy ==
    (xPc # "idle" /\ ~settings.overwriteExisting) =>
        /\ CallIndexes("remove") = {}
        /\ \A i \in CallIndexes("create") :
              /\ filesAtStart[calls[i].path] = NoFile
              /\ calls[i].path = PathOf(OutputFolder, FirstFreeName(filesAtStart, OutputFolder))
        /\ \A p \in AllPaths : filesAtStart[p] # NoFile => files[p] = filesAtStart[p]
        /\ xPc \in {"open", "finished"} /\ CallIndexes("create") # {}
              /\ ~calls[Max(CallIndexes("create"))].threw
              => files[newPath] = xConverted

Exported == {p \in AllPaths : files[p] \notin {NoFile, "old"}}

\* three exports to an empty target have produced Note.qmd, Note_1.qmd, Note_2.qmd
C1_Witness ==
    /\ xPc = "finished"
    /\ ~settings.overwriteExisting
    /\ exportsDone = 3
    /\ Exported = {PathOf(OutputFolder, n) :
                     n \in {BaseFileName, NumberedName(1), NumberedName(2)}}
    /\ \A p \in AllPaths : files[p] # "old"
    /\ newFileName = NumberedName(2)
    /\ notices = <<"Successfully exported to " \o NumberedName(2)>>

\* C4: a failure (precondition, read, mkdir, exists, remove, create) ends the
\* invocation: the call that threw is the last call made, exactly one Notice
\* is shown per invocation, and a precondition failure makes no call at all.
C4_FailureAborts ==
    /\ \A i \in 1..Len(calls) :
          calls[i].threw =>
              i = Len(calls) /\ (xPc = "finished" => notices = <<FailedNotice>>)
                /\ xPc \in {"finished", "idle"}
    /\ xPc = "finished" => Len(notices) = 1
    /\ xPc \notin {"finished", "idle"} => notices = <<>>
    /\ (xPc = "finished" /\ activeFile.kind # "md") =>
          /\ calls = <<>>
          /\ files = filesAtStart
          /\ notices = <<"Please open a Markdown file before exporting">>

\* an invocation whose remove threw, and one stopped by the extension check
C4_Witness ==
    /\ xPc = "finished"
    /\ \/ /\ Len(calls) = 4
          /\ calls[4] = Call("remove", BasePath, TRUE)
          /\ notices = <<FailedNotice>>
          /\ files = filesAtStart
       \/ /\ Len(calls) = 2
          /\ calls[2] = Call("mkdir", OutputFolder, TRUE)
          /\ notices = <<FailedNotice>>

\* C10: mkdir completes before the first exists check; the exists checks and
\* the collision resolution come before create; create is called at most
\* once and no file-system call follows it; only with overwriteExisting is
\* a path removed, and it is <basename>.qmd, the path then created.
C10_StepOrder ==
    /\ \A j \in 1..Len(calls) :
          calls[j].op \in {"exists", "remove", "create"} =>
              \E i \in 1..(j - 1) : calls[i] = Call("mkdir", OutputFolder, FALSE)
    /\ \A j \in CallIndexes("create") :
          /\ \E i \in 1..(j - 1) : calls[i].op = "exists"
          /\ \A i \in (j + 1)..Len(calls) :
                calls[i].op \notin {"mkdir", "exists", "remove", "create"}
    /\ Cardinality(CallIndexes("create")) <= 1
    /\ Cardinality(CallIndexes("remove")) <= 1
    /\ xPc # "idle" =>
          \A j \in CallIndexes("remove") :
              /\ settings.overwriteExisting
              /\ calls[j].path = BasePath
              /\ calls[j - 1] = Call("exists", BasePath, FALSE)
              /\ \A i \in CallIndexes("create") : calls[i].path = BasePath /\ i = j + 1

\* an overwriting export: read, mkdir, exists, remove, create, open
C10_Witness ==
    /\ xPc = "finished"
    /\ settings.overwriteExisting
    /\ Len(calls) = 6
    /\ calls[2] = Call("mkdir", OutputFolder, FALSE)
    /\ calls[3] = Call("exists", BasePath, FALSE)
    /\ calls[4] = Call("remove", BasePath, FALSE)
    /\ calls[5] = Call("create", BasePath, FALSE)
    /\ filesAtStart[BasePath] = "old"
    /\ files[BasePath] = xConverted

====
